---------------------------- MODULE Spec2Model ----------------------------
(***************************************************************************)
(* Board bring-up of the josh flight computer (boards/arm/stm32h7/josh):   *)
(* stm32_bringup() and its partition callback partition_handler(), from    *)
(* src/src/stm32_bringup.c.  The model follows the build in which          *)
(* CONFIG_I2C + CONFIG_SYSTEM_I2CTOOL, CONFIG_SENSORS_MS56XX,              *)
(* CONFIG_FS_PROCFS and CONFIG_STM32H7_SDMMC are all defined.              *)
(*                                                                         *)
(* The OS services the routine calls (i2c/sensor registration, nx_mount,   *)
(* stm32_sdio_initialize, parse_block_partition, register_blockpartition)  *)
(* are the environment: their results are chosen nondeterministically      *)
(* from the outcomes their interfaces allow.                               *)
(***************************************************************************)
EXTENDS Integers, Sequences, FiniteSets

VARIABLES
  pc,          \* position of stm32_bringup
  ret,         \* the local "int ret"
  status,      \* the value stm32_bringup returned (meaningful at pc = "done")
  partitions,  \* the static partition_state_t partitions[2] (0-based)
  i,           \* the loop variable of the discovery loop
  k,           \* parser position: next table entry handed to the callback
  table,       \* partition table of /dev/mmcsd0, as the parser reports it
  devices,     \* block sub-devices registered under /dev
  calls,       \* the OS calls made so far, in order, with their results
  syslog       \* messages logged so far (syslog/fwarn/finfo/ferr)

vars == <<pc, ret, status, partitions, i, k, table, devices, calls, syslog>>

-----------------------------------------------------------------------------
(* Bounds of the model *)

MaxParts == 2      \* longest partition table the parser reports
MaxIndex == 2      \* largest partition index the parser reports
MaxNeg == 2        \* how far below 0 the callback's inputs are taken

(* Program constants *)

OK == 0
ENOENT == 2
NPARTITIONS == 2
MAXSUFFIX == 10
ASCII0 == 48

FirstBlocks == {100, 500}
NBlocks == {400}

Errnos == {-12}                 \* -ENOMEM: the failure a service reports
MountErrnos == {-22, -5}        \* -EINVAL, -EIO: failures of a mount
EEXIST == 0 - 17
ENODEV == 0 - 19

-----------------------------------------------------------------------------
(* Data *)

\* struct partition_s as the parser hands it to the callback
Part(idx, fb, nb) == [index |-> idx, firstblock |-> fb, nblocks |-> nb]

Parts == {Part(idx, fb, nb) : idx \in 0..MaxIndex, fb \in FirstBlocks, nb \in NBlocks}

RECURSIVE SeqsUpTo(_, _)
SeqsUpTo(S, n) ==
  IF n = 0 THEN {<<>>}
  ELSE LET shorter == SeqsUpTo(S, n - 1)
       IN  shorter \cup {Append(s, x) : s \in {t \in shorter : Len(t) = n - 1}, x \in S}

Tables == SeqsUpTo(Parts, MaxParts)

\* A device path: the fixed text and the character code of its last character
Dev(base, c) == [base |-> base, suffix |-> c]
NoDev == Dev("", 0)
MMCSD0 == Dev("/dev/mmcsd", ASCII0)

\* One OS call in the log
Call(fn, dev, fs, fb, nb, req, res) ==
  [fn |-> fn, dev |-> dev, fs |-> fs, first |-> fb, nblocks |-> nb, req |-> req, res |-> res]

-----------------------------------------------------------------------------
(* partition_handler *)

\* The C comparison part->index == partition_num.  index is a size_t and
\* partition_num an int, so the int operand is converted to size_t before the
\* comparison.  A size_t value is written here by its 32-bit two's-complement
\* representative (SIZE_MAX is written -1, SIZE_MAX - 1 is written -2), which
\* the conversion leaves as it is: the operands are equal in C exactly when
\* their representatives are equal.
IndexEq(idx, num) == idx = num

HandlerAcceptsAnyIndex(part, st) == st.partition_num < MAXSUFFIX

\* The guard of the callback's if statement.
HandlerAccepts(part, st) ==
  st.partition_num < MAXSUFFIX /\ IndexEq(part.index, st.partition_num)

\* devname[] = "/dev/mmcsd0p0" with its last character overwritten.
DevName(st) == Dev("/dev/mmcsd0p", (st.partition_num + ASCII0) % 256)

\* What the callback stores in err after calling the registrar: the
\* registrar's return value is not looked at.
ErrAfterRegister(res) == 0

-----------------------------------------------------------------------------
(* Environment: the results an OS service may report *)

Results == {OK} \cup Errnos

DevExists(name, devs) == \E d \in devs : d.name = name

\* register_blockpartition: a name already taken is refused.
RegOutcomes(name, devs) == IF DevExists(name, devs) THEN {EEXIST} ELSE Results

\* nx_mount of a block device: a missing device cannot be mounted.
MountOutcomes(name, devs) ==
  IF DevExists(name, devs) THEN {OK} \cup MountErrnos ELSE {ENODEV, -ENOENT}

-----------------------------------------------------------------------------
(* stm32_bringup: the decisions it takes *)

LoopCondShort(n) == n < NPARTITIONS - 1

\* for (int i = 0; i < 2; i++)
LoopCond(n) == n < NPARTITIONS

ScanStopsIfAbsent(st) == st.err = ENOENT

\* Whether the loop body leaves the loop after a scan: neither branch does.
ScanStops(st) == FALSE

SdioAbortsOnFailure(r) == r < 0

\* Whether a failed stm32_sdio_initialize ends bring-up: the if body only logs.
SdioAborts(r) == FALSE

MountFailedPositive(r) == r > 0

\* if (ret) after the vfat mount
MountFailed(r) == r # 0

MountReturnGeneric(r) == 0 - 1

\* return ret; after the failed vfat mount
MountReturn(r) == r

FinalStatusAux == IF syslog # {} THEN 0 - 1 ELSE OK

\* return OK; at the end of the function
FinalStatus == OK

-----------------------------------------------------------------------------
(* Initial state: the static initialiser of partitions[] and any table *)

\* The buses stm32_i2ctool registers: those whose CONFIG_STM32H7_I2Cn is
\* defined, here I2C1 (the bus of the MS5607) and I2C2.
I2CBuses == {1, 2}

InitPartitions ==
  [n \in 0..(NPARTITIONS - 1) |-> [partition_num |-> n, err |-> ENOENT]]

Init ==
  /\ pc = "i2ctool"
  /\ ret = OK
  /\ status = OK
  /\ partitions = InitPartitions
  /\ i = 0
  /\ k = 1
  /\ table \in Tables
  /\ devices = {}
  /\ calls = <<>>
  /\ syslog = {}

-----------------------------------------------------------------------------
(* Actions: one per step of stm32_bringup *)

\* stm32_i2c_register(bus): a message is logged when the bus cannot be
\* initialised or its driver cannot be registered.
stm32_i2c_register(bus, out) == IF out = "ok" THEN {} ELSE {<<"i2c", bus>>}

stm32_i2ctool ==
  /\ pc = "i2ctool"
  /\ \E out \in [I2CBuses -> {"ok", "null", "regfail"}] :
       syslog' = syslog \cup UNION {stm32_i2c_register(b, out[b]) : b \in I2CBuses}
  /\ pc' = "ms56xx"
  /\ UNCHANGED <<ret, status, partitions, i, k, table, devices, calls>>

ms56xx_register ==
  /\ pc = "ms56xx"
  /\ \E r \in Results :
       /\ ret' = r
       /\ syslog' = IF r < 0 THEN syslog \cup {<<"ms5607", r>>} ELSE syslog
       /\ calls' = Append(calls, Call("ms56xx_register", NoDev, "", 0, 0, 0, r))
  /\ pc' = "procfs"
  /\ UNCHANGED <<status, partitions, i, k, table, devices>>

mount_procfs ==
  /\ pc = "procfs"
  /\ \E r \in Results :
       /\ ret' = r
       /\ syslog' = IF r < 0 THEN syslog \cup {<<"procfs", r>>} ELSE syslog
       /\ calls' = Append(calls, Call("nx_mount", NoDev, "procfs", 0, 0, 0, r))
  /\ pc' = "sdio"
  /\ UNCHANGED <<status, partitions, i, k, table, devices>>

stm32_sdio_initialize ==
  /\ pc = "sdio"
  /\ \E r \in Results :
       /\ ret' = r
       /\ syslog' = IF r < 0 THEN syslog \cup {<<"sdcard", r>>} ELSE syslog
       /\ calls' = Append(calls, Call("stm32_sdio_initialize", NoDev, "", 0, 0, 0, r))
       /\ pc' = IF r < 0 /\ SdioAborts(r) THEN "done" ELSE "loop"
       /\ status' = IF r < 0 /\ SdioAborts(r) THEN r ELSE status
  /\ UNCHANGED <<partitions, i, k, table, devices>>

\* Loop test true: parse_block_partition("/dev/mmcsd0", partition_handler,
\* &partitions[i]) is entered.
parse_block_partition ==
  /\ pc = "loop"
  /\ LoopCond(i)
  /\ calls' = Append(calls, Call("parse_block_partition", MMCSD0, "", 0, 0, i, OK))
  /\ k' = 1
  /\ pc' = "parse"
  /\ UNCHANGED <<ret, status, partitions, i, table, devices, syslog>>

\* The parser hands the next table entry to partition_handler.
partition_handler ==
  /\ pc = "parse"
  /\ k <= Len(table)
  /\ LET part == table[k]
         st   == partitions[i]
     IN  IF HandlerAccepts(part, st)
         THEN \E res \in RegOutcomes(DevName(st), devices) :
                /\ calls' = Append(calls, Call("register_blockpartition", DevName(st), "",
                                               part.firstblock, part.nblocks, i, res))
                /\ devices' = IF res = OK
                              THEN devices \cup {[name |-> DevName(st),
                                                  first |-> part.firstblock,
                                                  nblocks |-> part.nblocks]}
                              ELSE devices
                /\ partitions' = [partitions EXCEPT ![i].err = ErrAfterRegister(res)]
         ELSE UNCHANGED <<calls, devices, partitions>>
  /\ k' = k + 1
  /\ UNCHANGED <<pc, ret, status, i, table, syslog>>

\* The parser has walked the whole table: the loop body logs the outcome and
\* the loop moves to the next expected index.
parse_return ==
  /\ pc = "parse"
  /\ k > Len(table)
  /\ syslog' = syslog \cup
       {<<(IF partitions[i].err = ENOENT THEN "fwarn" ELSE "finfo"), partitions[i].partition_num>>}
  /\ i' = i + 1
  /\ pc' = IF ScanStops(partitions[i]) THEN "mount" ELSE "loop"
  /\ UNCHANGED <<ret, status, partitions, k, table, devices, calls>>

\* Loop test false.
loop_exit ==
  /\ pc = "loop"
  /\ ~LoopCond(i)
  /\ pc' = "mount"
  /\ UNCHANGED <<ret, status, partitions, i, k, table, devices, calls, syslog>>

\* nx_mount("/dev/mmcsd0p0", "/mnt/usrfs", "vfat", 0, NULL) and the return
\* that follows it, either way.
mount_usrfs ==
  /\ pc = "mount"
  /\ \E r \in MountOutcomes(Dev("/dev/mmcsd0p", ASCII0), devices) :
       /\ ret' = r
       /\ calls' = Append(calls, Call("nx_mount", Dev("/dev/mmcsd0p", ASCII0), "vfat", 0, 0, 0, r))
       /\ syslog' = IF MountFailed(r) THEN syslog \cup {<<"fat", r>>} ELSE syslog
       /\ status' = IF MountFailed(r) THEN MountReturn(r) ELSE FinalStatus
  /\ pc' = "done"
  /\ UNCHANGED <<partitions, i, k, table, devices>>

Next ==
  \/ stm32_i2ctool
  \/ ms56xx_register
  \/ mount_procfs
  \/ stm32_sdio_initialize
  \/ parse_block_partition
  \/ partition_handler
  \/ parse_return
  \/ loop_exit
  \/ mount_usrfs

Spec == Init /\ [][Next]_vars

-----------------------------------------------------------------------------
(* partition_handler on its own: any expected index, any reported entry.   *)
(* One table entry is handed to the callback for request 0, whose expected *)
(* index is drawn from below 0 up to beyond the single-digit range.        *)

HandlerNums == (0 - MaxNeg)..(MAXSUFFIX + 1)

HandlerInit ==
  /\ pc = "parse"
  /\ ret = OK
  /\ status = OK
  /\ \E n \in HandlerNums :
       partitions = [InitPartitions EXCEPT ![0].partition_num = n]
  /\ i = 0
  /\ k = 1
  /\ \E idx \in HandlerNums, fb \in FirstBlocks, nb \in NBlocks :
       table = <<Part(idx, fb, nb)>>
  /\ devices = {}
  /\ calls = <<>>
  /\ syslog = {}

HandlerNext == partition_handler \/ parse_return

HandlerSpec == HandlerInit /\ [][HandlerNext]_vars

-----------------------------------------------------------------------------
(* Vocabulary of the properties *)

Done == pc = "done"

Requests == 0..(NPARTITIONS - 1)

USRDEV == Dev("/dev/mmcsd0p", ASCII0)

IsUsrMount(c) == c.fn = "nx_mount" /\ c.fs = "vfat" /\ c.dev = USRDEV

IsSdioInit(c) == c.fn = "stm32_sdio_initialize"

IsScan(c, n) == c.fn = "parse_block_partition" /\ c.req = n

IsRegister(c, n) == c.fn = "register_blockpartition" /\ c.req = n

RegCalls(n) == {j \in DOMAIN calls : IsRegister(calls[j], n)}

ScanCalls == {j \in DOMAIN calls : calls[j].fn = "parse_block_partition"}

Matching(n) == {j \in DOMAIN table : table[j].index = n}

\* The discovery pass for request n has completed.
ScanDone(n) == n < i

LastCall == calls[Len(calls)]

\* The expected index of the scan entered last.
CurrentScan ==
  LET m == CHOOSE a \in ScanCalls : \A b \in ScanCalls : b <= a
  IN  calls[m].req

-----------------------------------------------------------------------------
(* C1: when the user-data (vfat) mount returns a non-zero status, bring-up *)
(* has returned exactly that status and the mount is the last call made:   *)
(* nothing is executed after it.                                           *)
C1_MountFailureReturned ==
  \A j \in DOMAIN calls :
    (IsUsrMount(calls[j]) /\ calls[j].res # 0)
      => /\ j = Len(calls)
         /\ Done
         /\ status = calls[j].res

C1_Witness ==
  /\ Done
  /\ Len(calls) > 0
  /\ IsUsrMount(LastCall)
  /\ LastCall.res = -22
  /\ status = -22
  /\ DevExists(USRDEV, devices)

(* C2 as stated: when stm32_sdio_initialize fails, bring-up returns that   *)
(* failure code and makes no partition scan and no mount afterwards.       *)
C2_SdioFailureAborts ==
  \A j \in DOMAIN calls :
    (Done /\ IsSdioInit(calls[j]) /\ calls[j].res < 0)
      => /\ status = calls[j].res
         /\ \A m \in DOMAIN calls :
              m > j => calls[m].fn \notin {"parse_block_partition", "nx_mount"}

(* C2 amended: when stm32_sdio_initialize fails, bring-up does not return  *)
(* there: it ends only after both partition scans and the user-data mount  *)
(* have been made, and it returns the outcome of that mount.               *)
C2_SdioFailureContinues ==
  \A j \in DOMAIN calls :
    (Done /\ IsSdioInit(calls[j]) /\ calls[j].res < 0)
      => /\ \A n \in Requests : \E m \in DOMAIN calls : m > j /\ IsScan(calls[m], n)
         /\ IsUsrMount(LastCall)
         /\ Len(calls) > j
         /\ status = LastCall.res

C2_Witness ==
  /\ Done
  /\ \E j \in DOMAIN calls : IsSdioInit(calls[j]) /\ calls[j].res = -12
  /\ IsUsrMount(LastCall)
  /\ status = ENODEV

(* C3: when the table holds the expected index but the registrar fails     *)
(* for it, the request's error state after its discovery pass is neither   *)
(* 'found' (0) nor 'absent' (ENOENT).                                      *)
C3_RegistrationFailureRecorded ==
  \A n \in Requests :
    (/\ ScanDone(n)
     /\ RegCalls(n) # {}
     /\ \A j \in RegCalls(n) : calls[j].res < 0)
      => partitions[n].err \notin {0, ENOENT}

(* C4: after the discovery pass for request n, the request is found and a  *)
(* sub-device /dev/mmcsd0p<n> spanning the blocks of a matching entry is   *)
(* registered if and only if the table holds an entry with index n;        *)
(* otherwise the request is not-found and no sub-device n is registered.   *)
C4_FoundIffInTable ==
  \A n \in Requests :
    ScanDone(n) =>
      IF Matching(n) # {}
      THEN /\ partitions[n].err = 0
           /\ \E d \in devices, j \in Matching(n) :
                /\ d.name = Dev("/dev/mmcsd0p", ASCII0 + n)
                /\ d.first = table[j].firstblock
                /\ d.nblocks = table[j].nblocks
      ELSE /\ partitions[n].err = ENOENT
           /\ ~DevExists(Dev("/dev/mmcsd0p", ASCII0 + n), devices)

(* C5: for an expected index outside 0..9, negative ones included, the     *)
(* callback registers nothing and leaves the request not-found, whatever   *)
(* entry the parser reports.                                               *)
C5_OutOfRangeNeverAccepted ==
  partitions[0].partition_num \notin 0..(MAXSUFFIX - 1)
    => /\ partitions[0].err = ENOENT
       /\ calls = <<>>
       /\ devices = {}

(* C6 as stated: at most one register_blockpartition call is made per      *)
(* expected partition request.                                             *)
C6_AtMostOneRegistration ==
  \A n \in Requests : Cardinality(RegCalls(n)) <= 1

(* C6 amended: the register_blockpartition calls made for a request are    *)
(* one per table entry whose index equals the request's index: never more  *)
(* than that, and exactly that many once its discovery pass is complete.   *)
C6_OneCallPerMatchingEntry ==
  /\ \A j \in DOMAIN calls :
       calls[j].fn = "register_blockpartition" => calls[j].req \in Requests
  /\ \A n \in Requests :
       /\ Cardinality(RegCalls(n)) <= Cardinality(Matching(n))
       /\ ScanDone(n) => Cardinality(RegCalls(n)) = Cardinality(Matching(n))

C6_Witness ==
  /\ Done
  /\ Cardinality(Matching(0)) = 2
  /\ Cardinality(RegCalls(0)) = 2
  /\ Cardinality(RegCalls(1)) = 0

(* C7: when the user-data mount succeeds, bring-up returns OK, whatever    *)
(* the auxiliary steps reported.                                           *)
C7_MountSuccessReturnsOK ==
  (Done /\ Len(calls) > 0 /\ IsUsrMount(LastCall) /\ LastCall.res = 0)
    => status = OK

C7_Witness ==
  /\ Done
  /\ IsUsrMount(LastCall)
  /\ LastCall.res = 0
  /\ status = OK
  /\ {<<"i2c", 1>>, <<"ms5607", -12>>, <<"procfs", -12>>, <<"fwarn", 1>>} \subseteq syslog

(* C8: with an empty partition table both requests end not-found, nothing  *)
(* is registered, the user-data mount on /dev/mmcsd0p0 is still made, and  *)
(* bring-up returns the status of that mount.                              *)
C8_EmptyTable ==
  (Done /\ table = <<>>)
    => /\ \A n \in Requests : partitions[n].err = ENOENT
       /\ devices = {}
       /\ \A n \in Requests : RegCalls(n) = {}
       /\ Len(calls) > 0
       /\ IsUsrMount(LastCall)
       /\ status = LastCall.res

C8_Witness ==
  /\ Done
  /\ table = <<>>
  /\ IsUsrMount(LastCall)
  /\ status = ENODEV
  /\ {<<"fwarn", 0>>, <<"fwarn", 1>>} \subseteq syslog

(* C9: the discovery loop scans the table exactly once per expected index, *)
(* index 0 then index 1, whatever the outcomes, and a step of the scan for *)
(* index i changes no request's status but request i's.                    *)
C9_OneScanPerIndex ==
  /\ [](pc \in {"mount", "done"} =>
          /\ Cardinality(ScanCalls) = NPARTITIONS
          /\ \A n \in Requests : \E j \in ScanCalls : calls[j].req = n
          /\ \A a, b \in ScanCalls : a < b => calls[a].req < calls[b].req)
  /\ [][\A n \in Requests :
          partitions'[n] # partitions[n] =>
            /\ pc = "parse"
            /\ n = i
            /\ ScanCalls # {}
            /\ CurrentScan = n]_vars

C9_Witness ==
  /\ Done
  /\ partitions[0].err = ENOENT
  /\ partitions[1].err = 0
  /\ Cardinality(ScanCalls) = 2

(* C10: no mount on a partition device is made before the discovery passes *)
(* for both expected indices have completed, and no power-safe (littlefs)  *)
(* mount precedes the user-data (vfat) mount.                              *)
C10_MountAfterDiscovery ==
  \A j \in DOMAIN calls :
    (calls[j].fn = "nx_mount" /\ calls[j].dev # NoDev)
      => /\ \A n \in Requests :
              /\ ScanDone(n)
              /\ \E m \in ScanCalls : m < j /\ calls[m].req = n
         /\ \A m \in DOMAIN calls :
              (m < j /\ IsUsrMount(calls[j])) => calls[m].fs # "littlefs"

C10_Witness ==
  /\ Done
  /\ IsUsrMount(LastCall)
  /\ \A n \in Requests : partitions[n].err = 0

====
